---- MODULE Spec2Model ----
(***************************************************************************)
(* envparse: the const-evaluable integer / boolean parsers of              *)
(* src/src/parse.rs, modelled as operators over byte sequences, and the    *)
(* calls a client can make as actions.                                     *)
(*                                                                         *)
(* Bytes are their ASCII codes.  Byte slices are sequences; the code's     *)
(* zero-based index s[i] is At(s, i).                                      *)
(*                                                                         *)
(* The 128-bit intermediate of the code is scaled to Bits bits: u128 is    *)
(* 0 .. 2^Bits - 1 and i128 is -2^(Bits-1) .. 2^(Bits-1) - 1.  Every       *)
(* comparison, checked operation and cast is taken at that width.          *)
(***************************************************************************)
EXTENDS Integers, Sequences, FiniteSets, TLC

\* Width of the scaled "128-bit" intermediate.
Bits == 3

\* Longest input slice of the parser specification (Spec).
MaxLen == 2

\* Longest free-form input slice of the tokenizer specification (SpecTok).
TokMaxLen == 4

\* Number of bits of the narrow integer types the width adapters serve
\* (u8 / i8 at the scale of Bits); the wide types have Bits bits.
NarrowBits == 2

U128_MAX == 2^Bits - 1
I128_MAX == 2^(Bits - 1) - 1
I128_MIN == -(2^(Bits - 1))

U128 == 0 .. U128_MAX
I128 == I128_MIN .. I128_MAX

(***************************************************************************)
(* Values                                                                  *)
(***************************************************************************)

\* Option<T>
None == [some |-> FALSE, v |-> 0]
Some(x) == [some |-> TRUE, v |-> x]

\* Option<(usize, usize)>
NoSpan == [some |-> FALSE, start |-> 0, end |-> 0]
SomeSpan(a, b) == [some |-> TRUE, start |-> a, end |-> b]

\* Result<(u128, bool), ParseError>
TokOk(n, neg) == [ok |-> TRUE, n |-> n, neg |-> neg, err |-> "None"]
TokErr(e) == [ok |-> FALSE, n |-> 0, neg |-> FALSE, err |-> e]

\* Result<u128, ParseError>, Result<i128, ParseError>
Ok(v) == [ok |-> TRUE, val |-> v, err |-> "None"]
Err(e) == [ok |-> FALSE, val |-> 0, err |-> e]

\* Result<bool, ParseError>
BoolOk(b) == [ok |-> TRUE, b |-> b, err |-> "None"]
BoolErr(e) == [ok |-> FALSE, b |-> FALSE, err |-> e]

ParseError ==
    {"Empty", "UnexpectedSign", "InvalidDigit", "NoDigits", "IntOverflow",
     "OutOfRange", "UnknownBoolValue"}

\* s[i], zero-based
At(s, i) == s[i + 1]

(***************************************************************************)
(* trim_ws                                                                 *)
(***************************************************************************)

\* u8::is_ascii_whitespace: space, tab, line feed, form feed, carriage return
is_space_or_tab(b) == b \in {32, 9}

is_ascii_whitespace(b) == b \in {32, 9, 10, 12, 13}

\* while start < s.len() && s[start].is_ascii_whitespace() { start += 1 }
\* (mutant first: an if in place of the while)
trim_front_once(s, start) ==
    IF start < Len(s) /\ is_ascii_whitespace(At(s, start)) THEN start + 1 ELSE start

RECURSIVE trim_front(_, _)
trim_front(s, start) ==
    IF start < Len(s) /\ is_ascii_whitespace(At(s, start))
    THEN trim_front(s, start + 1)
    ELSE start

\* while end > start && s[end].is_ascii_whitespace() { end -= 1 }
\* (mutant first: an if in place of the while)
trim_back_once(s, start, end) ==
    IF end > start /\ is_ascii_whitespace(At(s, end)) THEN end - 1 ELSE end

RECURSIVE trim_back(_, _, _)
trim_back(s, start, end) ==
    IF end > start /\ is_ascii_whitespace(At(s, end))
    THEN trim_back(s, start, end - 1)
    ELSE end

trim_ws(s) ==
    IF Len(s) = 0 \/ Len(s) <= 0
    THEN NoSpan
    ELSE LET start == trim_front(s, 0) IN
         IF start = Len(s)
         THEN NoSpan
         ELSE LET end == trim_back(s, start, Len(s) - 1) + 1 IN
              IF end <= start THEN NoSpan ELSE SomeSpan(start, end)

(***************************************************************************)
(* number_parse                                                            *)
(***************************************************************************)

\* u128::checked_mul / u128::checked_add at the scaled width.  (mutant first:
\* a wrapping multiplication)
wrapping_mul(a, b) == Some((a * b) % (2^Bits))

checked_mul(a, b) == IF a * b > U128_MAX THEN None ELSE Some(a * b)

\* (mutant: a wrapping addition)
wrapping_add(a, b) == Some((a + b) % (2^Bits))

checked_add(a, b) == IF a + b > U128_MAX THEN None ELSE Some(a + b)

\* the match (d, radix) of the digit loop.  (mutant first: no arm for '_')
digit_value_no_underscore(d, radix) ==
    IF \/ (48 <= d /\ d <= 49 /\ radix = 2)
       \/ (48 <= d /\ d <= 55 /\ radix = 8)
       \/ (48 <= d /\ d <= 57 /\ radix \in {10, 16})
    THEN [kind |-> "digit", v |-> d - 48]
    ELSE IF 97 <= d /\ d <= 102 /\ radix = 16
    THEN [kind |-> "digit", v |-> (d - 97) + 10]
    ELSE IF 65 <= d /\ d <= 70 /\ radix = 16
    THEN [kind |-> "digit", v |-> (d - 65) + 10]
    ELSE [kind |-> "invalid", v |-> 0]

\* (mutant: '_' is read as the digit 0)
digit_value_underscore_is_zero(d, radix) ==
    IF \/ (48 <= d /\ d <= 49 /\ radix = 2)
       \/ (48 <= d /\ d <= 55 /\ radix = 8)
       \/ (48 <= d /\ d <= 57 /\ radix \in {10, 16})
    THEN [kind |-> "digit", v |-> d - 48]
    ELSE IF 97 <= d /\ d <= 102 /\ radix = 16
    THEN [kind |-> "digit", v |-> (d - 97) + 10]
    ELSE IF 65 <= d /\ d <= 70 /\ radix = 16
    THEN [kind |-> "digit", v |-> (d - 65) + 10]
    ELSE IF d = 95
    THEN [kind |-> "digit", v |-> 0]
    ELSE [kind |-> "invalid", v |-> 0]

\* (mutant: no arm for the upper-case hexadecimal digits)
digit_value_no_upper_hex(d, radix) ==
    IF \/ (48 <= d /\ d <= 49 /\ radix = 2)
       \/ (48 <= d /\ d <= 55 /\ radix = 8)
       \/ (48 <= d /\ d <= 57 /\ radix \in {10, 16})
    THEN [kind |-> "digit", v |-> d - 48]
    ELSE IF 97 <= d /\ d <= 102 /\ radix = 16
    THEN [kind |-> "digit", v |-> (d - 97) + 10]
    ELSE IF d = 95
    THEN [kind |-> "skip", v |-> 0]
    ELSE [kind |-> "invalid", v |-> 0]

digit_value(d, radix) ==
    IF \/ (48 <= d /\ d <= 49 /\ radix = 2)
       \/ (48 <= d /\ d <= 55 /\ radix = 8)
       \/ (48 <= d /\ d <= 57 /\ radix \in {10, 16})
    THEN [kind |-> "digit", v |-> d - 48]
    ELSE IF 97 <= d /\ d <= 102 /\ radix = 16
    THEN [kind |-> "digit", v |-> (d - 97) + 10]
    ELSE IF 65 <= d /\ d <= 70 /\ radix = 16
    THEN [kind |-> "digit", v |-> (d - 65) + 10]
    ELSE IF d = 95
    THEN [kind |-> "skip", v |-> 0]
    ELSE [kind |-> "invalid", v |-> 0]

\* the match (s[pos], s[pos + 1]) that selects the radix: <<radix, len>>
\* (mutant first: the upper-case letters are not prefixes)
radix_prefix_lower_only(c0, c1) ==
    IF c0 = 48 /\ c1 = 120 THEN <<16, 2>>
    ELSE IF c0 = 48 /\ c1 = 111 THEN <<8, 2>>
    ELSE IF c0 = 48 /\ c1 = 98 THEN <<2, 2>>
    ELSE <<10, 0>>

radix_prefix(c0, c1) ==
    IF c0 = 48 /\ c1 \in {120, 88} THEN <<16, 2>>
    ELSE IF c0 = 48 /\ c1 \in {111, 79} THEN <<8, 2>>
    ELSE IF c0 = 48 /\ c1 \in {98, 66} THEN <<2, 2>>
    ELSE <<10, 0>>

\* while pos < end { ... } and the final if ever_saw_digits
RECURSIVE digit_loop(_, _, _, _, _, _, _)
digit_loop(s, pos, end, radix, accum, ever_saw_digits, neg) ==
    IF pos < end
    THEN LET value == digit_value(At(s, pos), radix) IN
         IF value.kind = "skip"
         THEN digit_loop(s, pos + 1, end, radix, accum, ever_saw_digits, neg)
         ELSE IF value.kind = "invalid"
         THEN TokErr("InvalidDigit")
         ELSE LET shift == checked_mul(accum, radix) IN
              IF ~shift.some
              THEN TokErr("IntOverflow")
              ELSE LET val == checked_add(shift.v, value.v) IN
                   IF ~val.some
                   THEN TokErr("IntOverflow")
                   ELSE digit_loop(s, pos + 1, end, radix, val.v, TRUE, neg)
    ELSE IF ever_saw_digits THEN TokOk(accum, neg) ELSE TokErr("NoDigits")

\* (mutant first: '+' is not consumed)
number_parse_plus_not_consumed(s, skip_sign) ==
    LET span == trim_ws(s) IN
    IF ~span.some
    THEN TokErr("Empty")
    ELSE LET end == span.end
             c == At(s, span.start)
         IN
         IF c = 45 /\ ~skip_sign
         THEN TokErr("UnexpectedSign")
         ELSE LET pos1 == IF c = 45 THEN span.start + 1 ELSE span.start
                  neg == (c = 45)
              IN
              IF pos1 = end
              THEN TokErr("NoDigits")
              ELSE LET rl == IF pos1 + 2 <= end
                             THEN radix_prefix(At(s, pos1), At(s, pos1 + 1))
                             ELSE <<10, 0>>
                   IN digit_loop(s, pos1 + rl[2], end, rl[1], 0, FALSE, neg)

number_parse(s, skip_sign) ==
    LET span == trim_ws(s) IN
    IF ~span.some
    THEN TokErr("Empty")
    ELSE LET end == span.end
             c == At(s, span.start)
         IN
         IF c = 45 /\ ~skip_sign
         THEN TokErr("UnexpectedSign")
         ELSE LET pos1 == IF c \in {45, 43} THEN span.start + 1 ELSE span.start
                  neg == (c = 45)
              IN
              IF pos1 = end
              THEN TokErr("NoDigits")
              ELSE LET rl == IF pos1 + 2 <= end
                             THEN radix_prefix(At(s, pos1), At(s, pos1 + 1))
                             ELSE <<10, 0>>
                   IN digit_loop(s, pos1 + rl[2], end, rl[1], 0, FALSE, neg)

(***************************************************************************)
(* parse_unsigned                                                          *)
(***************************************************************************)

\* let val = match number_parse(s, false) { ... }: Ok(val) goes on to the
\* bound checks, Err(e) is returned.  (mutants first)
unsigned_match_no_overflow_clamp(t, incl_min, incl_max, clamp) ==
    IF t.ok THEN Ok(t.n)
    ELSE IF t.err = "UnexpectedSign" /\ clamp THEN Ok(incl_min)
    ELSE Err(t.err)

unsigned_match_sign_to_max(t, incl_min, incl_max, clamp) ==
    IF t.ok THEN Ok(t.n)
    ELSE IF t.err = "IntOverflow" /\ clamp THEN Ok(incl_max)
    ELSE IF t.err = "UnexpectedSign" /\ clamp THEN Ok(incl_max)
    ELSE Err(t.err)

unsigned_match_clamp_any_error(t, incl_min, incl_max, clamp) ==
    IF t.ok THEN Ok(t.n)
    ELSE IF t.err = "IntOverflow" /\ clamp THEN Ok(incl_max)
    ELSE IF t.err \in {"UnexpectedSign", "NoDigits"} /\ clamp THEN Ok(incl_min)
    ELSE Err(t.err)

unsigned_match_sign_always_min(t, incl_min, incl_max, clamp) ==
    IF t.ok THEN Ok(t.n)
    ELSE IF t.err = "IntOverflow" /\ clamp THEN Ok(incl_max)
    ELSE IF t.err = "UnexpectedSign" THEN Ok(incl_min)
    ELSE Err(t.err)

unsigned_match(t, incl_min, incl_max, clamp) ==
    IF t.ok THEN Ok(t.n)
    ELSE IF t.err = "IntOverflow" /\ clamp THEN Ok(incl_max)
    ELSE IF t.err = "UnexpectedSign" /\ clamp THEN Ok(incl_min)
    ELSE Err(t.err)

\* the bound checks that end parse_unsigned.  (mutant first)
unsigned_bounds_exclusive_max(val, incl_min, incl_max, clamp) ==
    IF val < incl_min
    THEN (IF clamp THEN Ok(incl_min) ELSE Err("OutOfRange"))
    ELSE IF val >= incl_max
    THEN (IF clamp THEN Ok(incl_max) ELSE Err("OutOfRange"))
    ELSE Ok(val)

\* (mutant: the check against incl_max comes first)
unsigned_bounds_max_first(val, incl_min, incl_max, clamp) ==
    IF val > incl_max
    THEN (IF clamp THEN Ok(incl_max) ELSE Err("OutOfRange"))
    ELSE IF val < incl_min
    THEN (IF clamp THEN Ok(incl_min) ELSE Err("OutOfRange"))
    ELSE Ok(val)

unsigned_bounds(val, incl_min, incl_max, clamp) ==
    IF val < incl_min
    THEN (IF clamp THEN Ok(incl_min) ELSE Err("OutOfRange"))
    ELSE IF val > incl_max
    THEN (IF clamp THEN Ok(incl_max) ELSE Err("OutOfRange"))
    ELSE Ok(val)

parse_unsigned(s, incl_min, incl_max, clamp) ==
    LET val == unsigned_match(number_parse(s, FALSE), incl_min, incl_max, clamp) IN
    IF val.ok THEN unsigned_bounds(val.val, incl_min, incl_max, clamp) ELSE val

(***************************************************************************)
(* parse_signed                                                            *)
(***************************************************************************)

\* n as i128: reinterpretation of the bit pattern
as_i128(n) == IF n > I128_MAX THEN n - 2^Bits ELSE n

\* const I128_MIN_MAGNITUDE: u128 = (i128::MAX as u128) + 1
I128_MIN_MAGNITUDE == I128_MAX + 1

\* let val = match number_parse(s, true) { ... }: Ok(val) goes on to the
\* bound checks, Err(e) is returned.  (mutants first)
signed_match_no_min_arm(t, incl_min, incl_max, clamp) ==
    IF t.ok /\ t.neg /\ t.n <= I128_MAX THEN Ok(-as_i128(t.n))
    ELSE IF t.ok /\ t.neg /\ clamp THEN Ok(incl_min)
    ELSE IF t.ok /\ ~t.neg /\ t.n <= I128_MAX THEN Ok(as_i128(t.n))
    ELSE IF t.ok /\ ~t.neg /\ clamp THEN Ok(incl_max)
    ELSE IF t.ok THEN Err("OutOfRange")
    ELSE Err(t.err)

signed_match_neg_to_max(t, incl_min, incl_max, clamp) ==
    IF t.ok /\ t.neg /\ t.n = I128_MIN_MAGNITUDE THEN Ok(I128_MIN)
    ELSE IF t.ok /\ t.neg /\ t.n <= I128_MAX THEN Ok(-as_i128(t.n))
    ELSE IF t.ok /\ t.neg /\ clamp THEN Ok(incl_max)
    ELSE IF t.ok /\ ~t.neg /\ t.n <= I128_MAX THEN Ok(as_i128(t.n))
    ELSE IF t.ok /\ ~t.neg /\ clamp THEN Ok(incl_max)
    ELSE IF t.ok THEN Err("OutOfRange")
    ELSE Err(t.err)

\* (mutant: the clamp arm for a non-negative token comes first)
signed_match_clamp_arm_first(t, incl_min, incl_max, clamp) ==
    IF t.ok /\ t.neg /\ t.n = I128_MIN_MAGNITUDE THEN Ok(I128_MIN)
    ELSE IF t.ok /\ t.neg /\ t.n <= I128_MAX THEN Ok(-as_i128(t.n))
    ELSE IF t.ok /\ t.neg /\ clamp THEN Ok(incl_min)
    ELSE IF t.ok /\ ~t.neg /\ clamp THEN Ok(incl_max)
    ELSE IF t.ok /\ ~t.neg /\ t.n <= I128_MAX THEN Ok(as_i128(t.n))
    ELSE IF t.ok THEN Err("OutOfRange")
    ELSE Err(t.err)

signed_match(t, incl_min, incl_max, clamp) ==
    IF t.ok /\ t.neg /\ t.n = I128_MIN_MAGNITUDE THEN Ok(I128_MIN)
    ELSE IF t.ok /\ t.neg /\ t.n <= I128_MAX THEN Ok(-as_i128(t.n))
    ELSE IF t.ok /\ t.neg /\ clamp THEN Ok(incl_min)
    ELSE IF t.ok /\ ~t.neg /\ t.n <= I128_MAX THEN Ok(as_i128(t.n))
    ELSE IF t.ok /\ ~t.neg /\ clamp THEN Ok(incl_max)
    ELSE IF t.ok THEN Err("OutOfRange")
    ELSE Err(t.err)

\* the bound checks that end parse_signed.  (mutant first)
signed_bounds_clamp_to_min(val, incl_min, incl_max, clamp) ==
    IF val < incl_min
    THEN (IF clamp THEN Ok(incl_min) ELSE Err("OutOfRange"))
    ELSE IF val > incl_max
    THEN (IF clamp THEN Ok(incl_min) ELSE Err("OutOfRange"))
    ELSE Ok(val)

\* (mutant: no check against incl_max)
signed_bounds_min_only(val, incl_min, incl_max, clamp) ==
    IF val < incl_min
    THEN (IF clamp THEN Ok(incl_min) ELSE Err("OutOfRange"))
    ELSE Ok(val)

signed_bounds(val, incl_min, incl_max, clamp) ==
    IF val < incl_min
    THEN (IF clamp THEN Ok(incl_min) ELSE Err("OutOfRange"))
    ELSE IF val > incl_max
    THEN (IF clamp THEN Ok(incl_max) ELSE Err("OutOfRange"))
    ELSE Ok(val)

parse_signed(s, incl_min, incl_max, clamp) ==
    LET val == signed_match(number_parse(s, TRUE), incl_min, incl_max, clamp) IN
    IF val.ok THEN signed_bounds(val.val, incl_min, incl_max, clamp) ELSE val

(***************************************************************************)
(* parse_bool                                                              *)
(***************************************************************************)

\* usize::saturating_sub
saturating_sub(a, b) == IF a < b THEN 0 ELSE a - b

\* the patterns b'x' | b'X' of parse_bool: byte c is letter lo in either case
\* (mutant first: lower case only)
ci_lower_only(c, lo) == c = lo

ci(c, lo) == c = lo \/ c = lo - 32

\* match len { ... } of parse_bool, on the span that starts at i
bool_match(s, i, len) ==
    IF len = 0 THEN BoolErr("Empty")
    ELSE IF len = 1
    THEN (IF At(s, i) = 49 \/ ci(At(s, i), 116) \/ ci(At(s, i), 121)
          THEN BoolOk(TRUE)
          ELSE IF At(s, i) = 48 \/ ci(At(s, i), 102) \/ ci(At(s, i), 110)
          THEN BoolOk(FALSE)
          ELSE BoolErr("UnknownBoolValue"))
    ELSE IF len = 2
    THEN (IF ci(At(s, i), 110) /\ ci(At(s, i + 1), 111)
          THEN BoolOk(FALSE)
          ELSE IF ci(At(s, i), 111) /\ ci(At(s, i + 1), 110)
          THEN BoolOk(TRUE)
          ELSE BoolErr("UnknownBoolValue"))
    ELSE IF len = 3
    THEN (IF ci(At(s, i), 111) /\ ci(At(s, i + 1), 102) /\ ci(At(s, i + 2), 102)
          THEN BoolOk(FALSE)
          ELSE IF ci(At(s, i), 121) /\ ci(At(s, i + 1), 101) /\ ci(At(s, i + 2), 115)
          THEN BoolOk(TRUE)
          ELSE BoolErr("UnknownBoolValue"))
    ELSE IF len = 4
    THEN (IF /\ ci(At(s, i), 116) /\ ci(At(s, i + 1), 114)
             /\ ci(At(s, i + 2), 117) /\ ci(At(s, i + 3), 101)
          THEN BoolOk(TRUE)
          ELSE BoolErr("UnknownBoolValue"))
    ELSE IF len = 5
    THEN (IF /\ ci(At(s, i), 102) /\ ci(At(s, i + 1), 97) /\ ci(At(s, i + 2), 108)
             /\ ci(At(s, i + 3), 115) /\ ci(At(s, i + 4), 101)
          THEN BoolOk(FALSE)
          ELSE BoolErr("UnknownBoolValue"))
    ELSE BoolErr("UnknownBoolValue")

\* (mutant first: the wrong error when nothing is left after trimming)
parse_bool_unknown_when_blank(s) ==
    LET span == trim_ws(s) IN
    IF ~span.some
    THEN BoolErr("UnknownBoolValue")
    ELSE bool_match(s, span.start, saturating_sub(span.end, span.start))

parse_bool(s) ==
    LET span == trim_ws(s) IN
    IF ~span.some
    THEN BoolErr("Empty")
    ELSE bool_match(s, span.start, saturating_sub(span.end, span.start))

(***************************************************************************)
(* privat.rs: the width adapters                                           *)
(***************************************************************************)

\* the types the adapters are named after: an integer type of some width,
\* or bool
UnsignedType(w) == [kind |-> "unsigned", bits |-> w]
SignedType(w) == [kind |-> "signed", bits |-> w]
BoolType == [kind |-> "bool", bits |-> 1]
NoType == [kind |-> "none", bits |-> 0]

\* W::MIN and W::MAX
type_min(ty) == IF ty.kind = "signed" THEN 0 - 2^(ty.bits - 1) ELSE 0
type_max(ty) == IF ty.kind = "signed" THEN 2^(ty.bits - 1) - 1 ELSE 2^ty.bits - 1

\* macro unwrap_or!
unwrap_or(o, or) == IF o.some THEN o.v ELSE or

\* v as W: the low bits of v, read as a value of W
as_type(v, ty) ==
    LET low == v % (2^ty.bits) IN
    IF ty.kind = "signed" /\ low > type_max(ty) THEN low - 2^ty.bits ELSE low

\* the call of the 128-bit parser made by parse_bounded::W
\* (mutant first: the natural range of the intermediate type is used)
bounded_call_wide_range(ty, s, min, max, clamp) ==
    IF ty.kind = "signed"
    THEN parse_signed(s, unwrap_or(min, I128_MIN), unwrap_or(max, I128_MAX), clamp)
    ELSE parse_unsigned(s, unwrap_or(min, 0), unwrap_or(max, U128_MAX), clamp)

bounded_call(ty, s, min, max, clamp) ==
    IF ty.kind = "signed"
    THEN parse_signed(s, unwrap_or(min, type_min(ty)), unwrap_or(max, type_max(ty)), clamp)
    ELSE parse_unsigned(s, unwrap_or(min, 0), unwrap_or(max, type_max(ty)), clamp)

\* the match on the parser's result that ends every adapter
\* (mutant first: every error gives the default)
adapter_match_default_on_any_error(r, ty, default) ==
    IF r.ok THEN Some(as_type(r.val, ty))
    ELSE default

adapter_match(r, ty, default) ==
    IF r.ok THEN Some(as_type(r.val, ty))
    ELSE IF r.err = "Empty" THEN default
    ELSE None

\* parse_bounded::usize, u8, ..., i128
parse_bounded(ty, s, default, min, max, clamp) ==
    adapter_match(bounded_call(ty, s, min, max, clamp), ty, default)

\* parsers::bool
parsers_bool(s, default) ==
    LET r == parse_bool(s) IN
    IF r.ok THEN Some(r.b)
    ELSE IF r.err = "Empty" THEN default
    ELSE None

\* parsers::usize, u8, ..., i128, bool
parsers(ty, s, default) ==
    IF ty.kind = "bool"
    THEN parsers_bool(s, default)
    ELSE parse_bounded(ty, s, default, None, None, FALSE)

(***************************************************************************)
(* lib.rs: the arms of parse_env!                                          *)
(***************************************************************************)

\* what an expansion of parse_env! comes to: a value of the constant, a
\* panic during constant evaluation, or (env! on an unset variable) an error
\* raised before any parsing
Returned(x) == [kind |-> "returned", v |-> x]
Panic == [kind |-> "panic", v |-> 0]
CompileError == [kind |-> "compile_error", v |-> 0]

\* match ... { Some(v) => v, None => panic!(...) }
value_or_panic(o) == IF o.some THEN Returned(o.v) ELSE Panic

\* match ... { None => panic!(...), opt => opt }
option_or_panic(o) == IF o.some THEN Returned(o) ELSE Panic

\* ($var_name as $typ): set tells whether the variable is set, s is its value
parse_env_as(ty, set, s) ==
    IF ~set THEN CompileError ELSE value_or_panic(parsers(ty, s, None))

\* ($var_name as $typ else $default)
parse_env_as_else(ty, set, s, default) ==
    IF ~set THEN Returned(default)
    ELSE value_or_panic(parsers(ty, s, Some(default)))

\* ($var_name as $typ in $range): start and end_incl are the ends RangeWrap
\* gives for the range
parse_env_as_in(ty, set, s, start, end_incl) ==
    IF ~set THEN CompileError
    ELSE value_or_panic(parse_bounded(ty, s, None, Some(start), Some(end_incl), FALSE))

\* ($var_name as $typ (in $range) else $default)
\* (mutant first: a default outside the range is refused)
parse_env_as_in_else_default_in_range(ty, set, s, start, end_incl, default) ==
    IF ~set
    THEN (IF start <= default /\ default <= end_incl THEN Returned(default) ELSE Panic)
    ELSE value_or_panic(
             parse_bounded(ty, s, Some(default), Some(start), Some(end_incl), FALSE))

parse_env_as_in_else(ty, set, s, start, end_incl, default) ==
    IF ~set THEN Returned(default)
    ELSE value_or_panic(
             parse_bounded(ty, s, Some(default), Some(start), Some(end_incl), FALSE))

\* (try $var_name as $typ)
parse_env_try_as(ty, set, s) ==
    IF ~set THEN Returned(None)
    ELSE IF s = <<>> THEN Returned(None)
    ELSE option_or_panic(parsers(ty, s, None))

\* (try $var_name as $typ in $range)
parse_env_try_as_in(ty, set, s, start, end_incl) ==
    IF ~set THEN Returned(None)
    ELSE IF s = <<>> THEN Returned(None)
    ELSE option_or_panic(parse_bounded(ty, s, None, Some(start), Some(end_incl), FALSE))

(***************************************************************************)
(* Inputs                                                                  *)
(***************************************************************************)

\* every byte sequence over A of length at most n
Slices(A, n) == UNION {[1 .. k -> A] : k \in 0 .. n}

\* ' ' '+' '-' '_' 'g' 'x' and the digits 0 1 4 7 8 9
Alphabet == {32, 43, 45, 95, 103, 120, 48, 49, 52, 55, 56, 57}

\* padding, sign, radix prefix and one more byte, as the tests combine them:
\* pad is "" or " ", sign is "", "+" or "-", prefix is "", "0x", "0o" or "0b"
Pads == {<<>>, <<32>>}
Signs == {<<>>, <<43>>, <<45>>}
Prefixes == {<<>>, <<48, 120>>, <<48, 111>>, <<48, 98>>}

Shaped ==
    {p1 \o sg \o px \o <<d>> \o p2 :
        p1 \in Pads, sg \in Signs, px \in Prefixes, d \in Alphabet, p2 \in Pads}

\* the same with nothing after the prefix
Bare == {p1 \o sg \o px \o p2 : p1 \in Pads, sg \in Signs, px \in Prefixes, p2 \in Pads}

Inputs == Slices(Alphabet, MaxLen) \cup Shaped \cup Bare

(***************************************************************************)
(* parse.rs, step by step: the locals of a call, every index it reads and  *)
(* every subtraction, negation and accumulation it does                    *)
(***************************************************************************)

\* the locals of a call before it starts: pc is the place in the code,
\* reads counts the reads of each byte of s, steps the steps taken, and panic
\* tells that an index was out of bounds or an operation overflowed
Idle ==
    [pc |-> "idle", callee |-> "none", skip_sign |-> FALSE,
     incl_min |-> 0, incl_max |-> 0, clamp |-> FALSE,
     start |-> 0, end |-> 0, some |-> FALSE,
     pos |-> 0, radix |-> 10, accum |-> 0, ever_saw_digits |-> FALSE, neg |-> FALSE,
     reads |-> <<>>, steps |-> 0, panic |-> FALSE, ret |-> Err("None")]

(***************************************************************************)
(* The calls a client can make on one input slice                          *)
(***************************************************************************)
VARIABLES
    s,      \* the input slice
    op,     \* the entry point that was called, "none" before any call
    min,    \* incl_min of the call
    max,    \* incl_max of the call
    clamp,  \* clamp of the call
    sign,   \* skip_sign of a number_parse call
    res,    \* Result of parse_unsigned / parse_signed
    tok,    \* Result of number_parse
    bres,   \* Result of parse_bool
    span,   \* Option of trim_ws
    typ,    \* the type a width adapter or parse_env! was asked for
    dflt,   \* the default given to a width adapter or to parse_env!
    isset,  \* whether the environment variable parse_env! reads is set
    out,    \* what a width adapter or parse_env! gave back
    frame   \* locals and position of a call that is run step by step

vars == <<s, op, min, max, clamp, sign, res, tok, bres, span, typ, dflt, isset, out, frame>>

NothingCalled ==
    /\ op = "none"
    /\ min = 0
    /\ max = 0
    /\ clamp = FALSE
    /\ sign = FALSE
    /\ res = Err("None")
    /\ tok = TokErr("None")
    /\ bres = BoolErr("None")
    /\ span = NoSpan
    /\ typ = NoType
    /\ dflt = None
    /\ out = None
    /\ frame = Idle

Fresh == NothingCalled /\ isset = TRUE

Init == s \in Inputs /\ Fresh

CallTrimWs ==
    /\ op = "none"
    /\ op' = "trim_ws"
    /\ span' = trim_ws(s)
    /\ UNCHANGED <<s, min, max, clamp, sign, res, tok, bres, typ, dflt, isset, out, frame>>

CallNumberParse ==
    /\ op = "none"
    /\ \E skip_sign \in BOOLEAN :
          /\ sign' = skip_sign
          /\ tok' = number_parse(s, skip_sign)
    /\ op' = "number_parse"
    /\ UNCHANGED <<s, min, max, clamp, res, bres, span, typ, dflt, isset, out, frame>>

CallParseUnsigned ==
    /\ op = "none"
    /\ \E incl_min \in U128, incl_max \in U128, c \in BOOLEAN :
          /\ min' = incl_min
          /\ max' = incl_max
          /\ clamp' = c
          /\ res' = parse_unsigned(s, incl_min, incl_max, c)
    /\ op' = "parse_unsigned"
    /\ UNCHANGED <<s, sign, tok, bres, span, typ, dflt, isset, out, frame>>

CallParseSigned ==
    /\ op = "none"
    /\ \E incl_min \in I128, incl_max \in I128, c \in BOOLEAN :
          /\ min' = incl_min
          /\ max' = incl_max
          /\ clamp' = c
          /\ res' = parse_signed(s, incl_min, incl_max, c)
    /\ op' = "parse_signed"
    /\ UNCHANGED <<s, sign, tok, bres, span, typ, dflt, isset, out, frame>>

CallParseBool ==
    /\ op = "none"
    /\ op' = "parse_bool"
    /\ bres' = parse_bool(s)
    /\ UNCHANGED <<s, min, max, clamp, sign, res, tok, span, typ, dflt, isset, out, frame>>

Next ==
    \/ CallTrimWs
    \/ CallNumberParse
    \/ CallParseUnsigned
    \/ CallParseSigned
    \/ CallParseBool

Spec == Init /\ [][Next]_vars

(***************************************************************************)
(* Properties of parse_unsigned and parse_signed (under Spec)              *)
(***************************************************************************)

\* what the tokenizer answers when the unsigned / the signed parser calls it
TokU == number_parse(s, FALSE)
TokS == number_parse(s, TRUE)

\* the inclusive reject-or-clamp policy, written out from the specification
Policy(v, lo, hi, c) ==
    IF c
    THEN Ok(IF v < lo THEN lo ELSE IF v > hi THEN hi ELSE v)
    ELSE IF lo <= v /\ v <= hi THEN Ok(v) ELSE Err("OutOfRange")

\* C1: parse_unsigned bound policy.  When tokenization succeeds with
\* magnitude m and min <= max, parse_unsigned without clamp returns Ok(m) if
\* min <= m <= max and Err(OutOfRange) otherwise, and with clamp returns
\* Ok(min) if m < min, Ok(max) if m > max and Ok(m) otherwise.
C1_UnsignedBoundPolicy ==
    (op = "parse_unsigned" /\ TokU.ok /\ min <= max)
        => res = Policy(TokU.n, min, max, clamp)

\* a non-clamping call accepted a magnitude equal to max
C1_Witness ==
    /\ op = "parse_unsigned" /\ TokU.ok /\ min < max /\ ~clamp
    /\ TokU.n = max /\ res = Ok(max)

\* C2: signed reconstruction under full bounds without clamp.  For an input
\* tokenized as (n, neg): Ok(i128::MIN) when neg and n = i128::MAX + 1, Ok(-n)
\* when neg and n <= i128::MAX, Ok(n) when not neg and n <= i128::MAX,
\* Err(OutOfRange) otherwise; and for an unsigned token s that parses to v,
\* "-" followed by s parses to -v.
IsUnsignedToken(x) ==
    Len(x) > 0 /\ ~is_ascii_whitespace(x[1]) /\ x[1] \notin {43, 45}

C2_SignedReconstruction ==
    (op = "parse_signed" /\ min = I128_MIN /\ max = I128_MAX /\ ~clamp /\ TokS.ok)
        => /\ res = (IF TokS.neg /\ TokS.n = I128_MAX + 1 THEN Ok(I128_MIN)
                     ELSE IF TokS.neg /\ TokS.n <= I128_MAX THEN Ok(0 - TokS.n)
                     ELSE IF ~TokS.neg /\ TokS.n <= I128_MAX THEN Ok(TokS.n)
                     ELSE Err("OutOfRange"))
           /\ (IsUnsignedToken(s) /\ res.ok)
                 => parse_signed(<<45>> \o s, I128_MIN, I128_MAX, FALSE)
                      = Ok(0 - res.val)

\* the most negative value was reconstructed
C2_Witness ==
    /\ op = "parse_signed" /\ min = I128_MIN /\ max = I128_MAX /\ ~clamp
    /\ TokS.ok /\ TokS.neg /\ TokS.n = I128_MAX + 1
    /\ res = Ok(I128_MIN)

\* C3: signed bound policy.  When the input reconstructs to a representable
\* signed value v and min <= max, parse_signed applies the same inclusive
\* reject-or-clamp policy to v.
Representable(t) ==
    t.ok /\ (IF t.neg THEN t.n <= I128_MAX + 1 ELSE t.n <= I128_MAX)

SignedValue(t) == IF t.neg THEN 0 - t.n ELSE t.n

C3_SignedBoundPolicy ==
    (op = "parse_signed" /\ Representable(TokS) /\ min <= max)
        => res = Policy(SignedValue(TokS), min, max, clamp)

\* a negative value above a negative maximum was clamped down to it
C3_Witness ==
    /\ op = "parse_signed" /\ Representable(TokS) /\ min < max /\ clamp
    /\ SignedValue(TokS) < 0 /\ SignedValue(TokS) > max
    /\ res = Ok(max)

\* C4: signed saturation.  A magnitude that tokenizes but exceeds i128::MAX
\* (non-negative) gives Ok(max) with clamp and min <= max, one whose negative
\* magnitude exceeds i128::MAX + 1 gives Ok(min); without clamp both give
\* Err(OutOfRange).
PosOverflow(t) == t.ok /\ ~t.neg /\ t.n > I128_MAX
NegOverflow(t) == t.ok /\ t.neg /\ t.n > I128_MAX + 1

C4_SignedSaturation ==
    (op = "parse_signed" /\ (PosOverflow(TokS) \/ NegOverflow(TokS)))
        => /\ (clamp /\ min <= max /\ PosOverflow(TokS)) => res = Ok(max)
           /\ (clamp /\ min <= max /\ NegOverflow(TokS)) => res = Ok(min)
           /\ ~clamp => res = Err("OutOfRange")

\* a too-negative magnitude was saturated to a minimum below the maximum
C4_Witness ==
    /\ op = "parse_signed" /\ NegOverflow(TokS) /\ clamp /\ min < max
    /\ res = Ok(min)

\* C5: in parse_signed with clamp, a tokenizer-level IntOverflow saturates
\* toward the sign already observed: Ok(min) when a leading '-' was consumed,
\* Ok(max) otherwise, rather than Err(IntOverflow).
LeadingMinus(x) == trim_ws(x).some /\ At(x, trim_ws(x).start) = 45

C5_SignedIntOverflowSaturates ==
    (op = "parse_signed" /\ clamp /\ ~TokS.ok /\ TokS.err = "IntOverflow")
        => res = (IF LeadingMinus(s) THEN Ok(min) ELSE Ok(max))

\* C6: in parse_unsigned, an input whose tokenization fails with IntOverflow
\* gives Ok(max) with clamp and min <= max, and Err(IntOverflow) without clamp.
C6_UnsignedIntOverflow ==
    (op = "parse_unsigned" /\ ~TokU.ok /\ TokU.err = "IntOverflow")
        => /\ (clamp /\ min <= max) => res = Ok(max)
           /\ ~clamp => res = Err("IntOverflow")

\* an overflowing input was saturated to a maximum that is not the widest one
C6_Witness ==
    /\ op = "parse_unsigned" /\ ~TokU.ok /\ TokU.err = "IntOverflow"
    /\ clamp /\ min < max /\ max < U128_MAX /\ res = Ok(max)

\* C7: in parse_unsigned with clamp and min <= max, an input whose
\* tokenization fails with UnexpectedSign gives Ok(min).
C7_UnsignedNegativeSaturates ==
    (op = "parse_unsigned" /\ ~TokU.ok /\ TokU.err = "UnexpectedSign"
        /\ clamp /\ min <= max)
        => res = Ok(min)

\* a negative input was saturated to a non-zero minimum
C7_Witness ==
    /\ op = "parse_unsigned" /\ ~TokU.ok /\ TokU.err = "UnexpectedSign"
    /\ clamp /\ 0 < min /\ min < max /\ res = Ok(min)

\* C8: Empty, InvalidDigit and NoDigits always propagate.  If the tokenizer,
\* called as the parser calls it, fails with one of them, parse_unsigned and
\* parse_signed return that same error with and without clamp, for all bounds.
Nonsense == {"Empty", "InvalidDigit", "NoDigits"}

C8_NonsensePropagates ==
    /\ (op = "parse_unsigned" /\ ~TokU.ok /\ TokU.err \in Nonsense)
          => res = Err(TokU.err)
    /\ (op = "parse_signed" /\ ~TokS.ok /\ TokS.err \in Nonsense)
          => res = Err(TokS.err)

\* a clamping unsigned call returned NoDigits
C8_Witness ==
    /\ op = "parse_unsigned" /\ clamp /\ ~TokU.ok /\ TokU.err = "NoDigits"
    /\ res = Err("NoDigits")

(***************************************************************************)
(* The tokenizer on its own (SpecTok): longer slices over an alphabet with *)
(* all three prefix letters, and literals long enough to overflow in       *)
(* every radix.                                                            *)
(***************************************************************************)

\* ' ' '+' '-' '_' 'g' 'x' 'o' 'b' 'f' and the digits 0 1 7 8
TokAlphabet == {32, 43, 45, 95, 103, 120, 111, 98, 102, 48, 49, 55, 56}

\* an optional prefix and a run of 0, 1 and '_' of up to Bits + 2 bytes
Literals ==
    {px \o run : px \in Prefixes, run \in Slices({48, 49, 95}, Bits + 2)}

\* Longest digit run after a prefix in either case (CaseForms).
CaseRunLen == 2

\* an optional sign, a prefix in either case, and a short run over
\* 1 2 8 F G '_'
CaseForms ==
    {sg \o <<48, l>> \o run :
        sg \in Signs, l \in {120, 88, 111, 79, 98, 66},
        run \in Slices({49, 50, 56, 70, 71, 95}, CaseRunLen)}

TokInputs == Slices(TokAlphabet, TokMaxLen) \cup Literals \cup CaseForms

InitTok == s \in TokInputs /\ Fresh

NextTok == CallNumberParse \/ CallTrimWs

SpecTok == InitTok /\ [][NextTok]_vars

(***************************************************************************)
(* The integer grammar, as a predicate on the trimmed token                *)
(***************************************************************************)

\* the digit classes of the grammar
DigitsOf(radix) ==
    IF radix = 2 THEN 48 .. 49
    ELSE IF radix = 8 THEN 48 .. 55
    ELSE IF radix = 10 THEN 48 .. 57
    ELSE (48 .. 57) \cup (65 .. 70) \cup (97 .. 102)

DropFirst(x, k) == SubSeq(x, k + 1, Len(x))

\* digit (digit | '_')*
StrictRun(r, radix) ==
    /\ Len(r) >= 1
    /\ r[1] \in DigitsOf(radix)
    /\ \A i \in 1 .. Len(r) : r[i] \in DigitsOf(radix) \cup {95}

\* (digit | '_')* with at least one digit
LooseRun(r, radix) ==
    /\ \E i \in 1 .. Len(r) : r[i] \in DigitsOf(radix)
    /\ \A i \in 1 .. Len(r) : r[i] \in DigitsOf(radix) \cup {95}

HasPrefix(x, letters) == Len(x) >= 2 /\ x[1] = 48 /\ x[2] \in letters

\* prefixed_int | dec_int
UnsignedForm(x, Run(_, _)) ==
    \/ HasPrefix(x, {120, 88}) /\ Run(DropFirst(x, 2), 16)
    \/ HasPrefix(x, {111, 79}) /\ Run(DropFirst(x, 2), 8)
    \/ HasPrefix(x, {98, 66}) /\ Run(DropFirst(x, 2), 2)
    \/ Run(x, 10)

\* sign? (prefixed_int | dec_int)
IntegerForm(x, Run(_, _)) ==
    \/ UnsignedForm(x, Run)
    \/ Len(x) >= 1 /\ x[1] \in {43, 45} /\ UnsignedForm(DropFirst(x, 1), Run)

\* the token left by trimming (empty when nothing is left)
Trimmed(x) ==
    IF trim_ws(x).some THEN SubSeq(x, trim_ws(x).start + 1, trim_ws(x).end) ELSE <<>>

Accepted(t) == t.ok \/ t.err = "IntOverflow"

\* Exact positional value of a token of the grammar

\* the token without its sign
Unsigned(x) == IF Len(x) >= 1 /\ x[1] \in {43, 45} THEN DropFirst(x, 1) ELSE x

\* the radix the grammar gives the token, and its digit run
RadixOf(x) ==
    IF HasPrefix(x, {120, 88}) THEN 16
    ELSE IF HasPrefix(x, {111, 79}) THEN 8
    ELSE IF HasPrefix(x, {98, 66}) THEN 2
    ELSE 10

RunOf(x) == IF RadixOf(x) = 10 THEN x ELSE DropFirst(x, 2)

IsDigitByte(c) == c # 95

DigitsOnly(r) == SelectSeq(r, IsDigitByte)

ValueOfDigit(c) == IF c <= 57 THEN c - 48 ELSE IF c <= 70 THEN c - 55 ELSE c - 87

\* sum of digit * radix^(place), most significant digit first
RECURSIVE Positional(_, _)
Positional(ds, radix) ==
    IF ds = <<>> THEN 0
    ELSE ValueOfDigit(Head(ds)) * radix^(Len(ds) - 1) + Positional(Tail(ds), radix)

ExactValue(x) == Positional(DigitsOnly(RunOf(Unsigned(x))), RadixOf(Unsigned(x)))

OverflowingPrefix(x) ==
    \E k \in 1 .. Len(x) - 1 :
        /\ IntegerForm(SubSeq(x, 1, k), LooseRun)
        /\ ExactValue(SubSeq(x, 1, k)) > U128_MAX

C10_ExactOverflow ==
    (op = "number_parse" /\ sign /\ IntegerForm(Trimmed(s), LooseRun))
        => IF ExactValue(Trimmed(s)) <= U128_MAX
           THEN tok.ok /\ tok.n = ExactValue(Trimmed(s))
           ELSE tok = TokErr("IntOverflow")

\* the maximal binary literal was tokenized to u128::MAX
C10_Witness ==
    /\ op = "number_parse" /\ sign
    /\ HasPrefix(Trimmed(s), {98, 66})
    /\ IntegerForm(Trimmed(s), StrictRun)
    /\ tok = TokOk(U128_MAX, FALSE)

(***************************************************************************)
(* The trimmer on its own (SpecTrim): slices over every ASCII white-space  *)
(* candidate and one letter.                                               *)
(***************************************************************************)

\* Longest input slice of the trimmer specification (SpecTrim).
TrimMaxLen == 4

\* tab, line feed, vertical tab, form feed, carriage return, ' ' and 'a'
TrimAlphabet == {9, 10, 11, 12, 13, 32, 97}

TrimInputs == Slices(TrimAlphabet, TrimMaxLen)

InitTrim == s \in TrimInputs /\ Fresh

NextTrim == CallTrimWs

SpecTrim == InitTrim /\ [][NextTrim]_vars

\* the positions of x whose byte is not in the set W
Content(x, W) == {i \in 1 .. Len(x) : x[i] \notin W}

Lowest(S) == CHOOSE i \in S : \A j \in S : i <= j
Highest(S) == CHOOSE i \in S : \A j \in S : j <= i

\* trim strips exactly the bytes of W: no span when every byte is in W, and
\* otherwise the span from the first byte outside W to one past the last
StripsExactly(W) ==
    op = "trim_ws"
        => IF Content(s, W) = {}
           THEN span = NoSpan
           ELSE span = SomeSpan(Lowest(Content(s, W)) - 1, Highest(Content(s, W)))

\* C15 as stated: the white space stripped by trim is exactly space, tab, CR
\* and LF; any other byte, form feed and vertical tab included, is content.
C15_StripsFourBytes == StripsExactly({32, 9, 13, 10})

\* C15 amended: the white space stripped by trim is exactly the five bytes
\* space, tab, LF, form feed and CR; any other byte, vertical tab included,
\* is content.
C15_StripsFiveBytes == StripsExactly({32, 9, 10, 12, 13})

\* form feeds were stripped from both ends and a vertical tab was kept
C15_Witness ==
    /\ op = "trim_ws" /\ Len(s) = 4
    /\ s[1] = 12 /\ s[2] = 11 /\ s[4] = 12
    /\ span = SomeSpan(1, 3)

\* C16: trimming is a fixpoint.  When trim returns (start, end) on s, trim
\* on the sub-slice s[start..end] returns the whole sub-slice (0, end - start).
C16_TrimFixpoint ==
    (op = "trim_ws" /\ span.some)
        => trim_ws(SubSeq(s, span.start + 1, span.end))
             = SomeSpan(0, span.end - span.start)

\* white space was stripped from both ends of a slice
C16_Witness ==
    /\ op = "trim_ws" /\ span.some
    /\ span.start > 0 /\ span.end < Len(s)
    /\ trim_ws(SubSeq(s, span.start + 1, span.end))
         = SomeSpan(0, span.end - span.start)

(***************************************************************************)
(* The boolean parser on its own (SpecBool): every short slice over the    *)
(* letters of the spellings, and the spellings in every mix of cases,      *)
(* padded, and with one byte changed, added or removed.                    *)
(***************************************************************************)

\* Longest free-form input slice of the boolean specification (SpecBool).
BoolMaxLen == 3

\* 1 t y on yes true
TrueWords ==
    {<<49>>, <<116>>, <<121>>, <<111, 110>>, <<121, 101, 115>>,
     <<116, 114, 117, 101>>}

\* 0 f n no off false
FalseWords ==
    {<<48>>, <<102>>, <<110>>, <<110, 111>>, <<111, 102, 102>>,
     <<102, 97, 108, 115, 101>>}

Words == TrueWords \cup FalseWords

ToUpper(c) == IF 97 <= c /\ c <= 122 THEN c - 32 ELSE c
ToLower(c) == IF 65 <= c /\ c <= 90 THEN c + 32 ELSE c
Lowered(x) == [i \in 1 .. Len(x) |-> ToLower(x[i])]

\* w with each letter in either case
CaseVariants(w) ==
    {v \in [1 .. Len(w) -> {w[i] : i \in 1 .. Len(w)} \cup {ToUpper(w[i]) : i \in 1 .. Len(w)}] :
        \A i \in 1 .. Len(w) : v[i] \in {w[i], ToUpper(w[i])}}

\* ' ' '1' 'e' 'x' 'X'
EditBytes == {32, 49, 101, 120, 88}

\* w with one byte replaced, one byte added, or one byte removed
Edits(w) ==
    {[w EXCEPT ![i] = c] : i \in 1 .. Len(w), c \in EditBytes}
    \cup {SubSeq(w, 1, i) \o <<c>> \o SubSeq(w, i + 1, Len(w)) :
             i \in 0 .. Len(w), c \in EditBytes}
    \cup {SubSeq(w, 1, i - 1) \o SubSeq(w, i + 1, Len(w)) : i \in 1 .. Len(w)}

\* "", " ", tab LF, form feed, CR
BoolPads == {<<>>, <<32>>, <<9, 10>>, <<12>>, <<13>>}

\* ' ' '0' '1' 'x' and letters of the spellings
BoolAlphabet == {32, 48, 49, 116, 84, 121, 110, 111, 79, 102, 70, 101, 115, 120}

BoolInputs ==
    Slices(BoolAlphabet, BoolMaxLen)
    \cup UNION {CaseVariants(w) : w \in Words}
    \cup UNION {Edits(w) : w \in Words}
    \cup UNION {Edits([i \in 1 .. Len(w) |-> ToUpper(w[i])]) : w \in Words}
    \cup {p1 \o v \o p2 :
             p1 \in BoolPads, p2 \in BoolPads, v \in UNION {CaseVariants(w) : w \in Words}}
    \cup BoolPads

InitBool == s \in BoolInputs /\ Fresh

NextBool == CallParseBool

SpecBool == InitBool /\ [][NextBool]_vars

\* C13: parse_bool accepts exactly the twelve spellings.  It returns Ok(true)
\* if and only if the trimmed input, compared case-insensitively, is one of
\* 1, t, y, on, yes, true, and Ok(false) if and only if it is one of 0, f, n,
\* no, off, false.
C13_TwelveSpellings ==
    op = "parse_bool"
        => /\ bres = BoolOk(TRUE) <=> Lowered(Trimmed(s)) \in TrueWords
           /\ bres = BoolOk(FALSE) <=> Lowered(Trimmed(s)) \in FalseWords

\* a padded, mixed-case five-letter spelling was accepted
C13_Witness ==
    /\ op = "parse_bool" /\ bres = BoolOk(FALSE)
    /\ Len(Trimmed(s)) = 5 /\ Len(s) > 5
    /\ Trimmed(s) # Lowered(Trimmed(s))

\* C14: parse_bool error classification.  Err(Empty) exactly when the input
\* is zero-length or only white space; Err(UnknownBoolValue) for every other
\* input that is not an accepted spelling, those longer than five bytes and
\* spellings with extra bytes included.
Blank(x) == \A i \in 1 .. Len(x) : x[i] \in {32, 9, 10, 12, 13}

C14_BoolErrors ==
    op = "parse_bool"
        => /\ bres = BoolErr("Empty") <=> Blank(s)
           /\ (~Blank(s) /\ Lowered(Trimmed(s)) \notin Words)
                 => bres = BoolErr("UnknownBoolValue")

\* a spelling with an extra byte, six bytes long, was refused
C14_Witness ==
    /\ op = "parse_bool" /\ bres = BoolErr("UnknownBoolValue")
    /\ Len(Trimmed(s)) = 6
    /\ SubSeq(Trimmed(s), 1, 5) \in FalseWords

(***************************************************************************)
(* Radix selection and digit validity (SpecTok)                            *)
(***************************************************************************)

\* the token without its sign, the radix its first two bytes select, and the
\* bytes after the prefix
Body == Unsigned(Trimmed(s))
BodyRadix == RadixOf(Body)
BodyRun == RunOf(Body)

\* positions of the run that hold neither a digit of the radix nor '_'
BadBytes == {i \in 1 .. Len(BodyRun) : BodyRun[i] \notin DigitsOf(BodyRadix) \cup {95}}

\* the call reaches the radix selection: a sign, if any, is consumed and
\* something follows it
ReachesRadix ==
    /\ op = "number_parse"
    /\ Body # <<>>
    /\ sign \/ Trimmed(s)[1] # 45

\* C11 as stated: the radix is 16, 8 or 2 exactly when the two bytes after
\* the optional sign are '0' and x/X, o/O or b/B, and 10 otherwise; a
\* magnitude is the value of the remaining digits in that radix, and any
\* byte after the prefix that is neither a digit of the radix nor '_' makes
\* the parse fail with InvalidDigit.
C11_InvalidDigitAlways ==
    ReachesRadix
        => /\ tok.ok => tok.n = Positional(DigitsOnly(BodyRun), BodyRadix)
           /\ BadBytes # {} => tok = TokErr("InvalidDigit")
           /\ BadBytes = {} => tok.err # "InvalidDigit"

\* the digits before the first offending byte already exceed u128::MAX
OverflowsBeforeBad ==
    Positional(DigitsOnly(SubSeq(BodyRun, 1, Lowest(BadBytes) - 1)), BodyRadix) > U128_MAX

\* C11 amended: the same radix selection and value, and a byte that is
\* neither a digit of the radix nor '_' makes the parse fail with
\* InvalidDigit unless the digits before the first such byte already exceed
\* u128::MAX, in which case the parse fails with IntOverflow.
C11_InvalidDigitUnlessOverflow ==
    ReachesRadix
        => /\ tok.ok => tok.n = Positional(DigitsOnly(BodyRun), BodyRadix)
           /\ BadBytes # {}
                 => tok = IF OverflowsBeforeBad
                          THEN TokErr("IntOverflow")
                          ELSE TokErr("InvalidDigit")
           /\ BadBytes = {} => tok.err # "InvalidDigit"

\* an upper-case octal prefix was consumed, a digit was read, and the byte
\* after it, a decimal digit that is no octal digit, was refused
C11_Witness ==
    /\ op = "number_parse"
    /\ Body = <<48, 79, 49, 56>>
    /\ tok = TokErr("InvalidDigit")

(***************************************************************************)
(* Letters in either case and underscores among the digits (SpecCase):     *)
(* parse_unsigned and parse_signed on an optional '-', an optional prefix  *)
(* in either case and a short run over 1 a A G '_'.                        *)
(***************************************************************************)

CaseInputs ==
    {sg \o px \o run :
        sg \in {<<>>, <<45>>},
        px \in {<<>>} \cup {<<48, l>> : l \in {120, 88, 111, 79, 98, 66}},
        run \in Slices({49, 97, 65, 71, 95}, CaseRunLen)}

InitCase == s \in CaseInputs /\ Fresh

NextCase == CallParseUnsigned \/ CallParseSigned

SpecCase == InitCase /\ [][NextCase]_vars

\* the underscores a run begins with
LeadingUnderscores(r) ==
    SubSeq(r, 1, Cardinality({j \in 1 .. Len(r) : \A i \in 1 .. j : r[i] = 95}))

\* x in lower case and without the underscores that come after a digit
Canonical(x) ==
    LET l == Lowered(x)
        u == Unsigned(l)
        r == RunOf(u)
    IN SubSeq(l, 1, Len(l) - Len(r)) \o LeadingUnderscores(r) \o DigitsOnly(r)

\* the parser that was called, with the bounds and clamp of the call
SameCall(x) ==
    IF op = "parse_unsigned"
    THEN parse_unsigned(x, min, max, clamp)
    ELSE parse_signed(x, min, max, clamp)

PadLen == 2

\* space, tab, LF, CR
PadBytes == {32, 9, 10, 13}

\* "", "1", "-1", "8", "no", "1 1"
Cores == {<<>>, <<49>>, <<45, 49>>, <<56>>, <<110, 111>>, <<49, 32, 49>>}

PadInputs ==
    UNION {{lead \o core \o trail :
                core \in Cores,
                lead \in [1 .. k -> PadBytes],
                trail \in Slices(PadBytes, PadLen - k)} : k \in 0 .. PadLen}

InitPad == s \in PadInputs /\ Fresh

NextPad == CallParseUnsigned \/ CallParseSigned \/ CallParseBool

SpecPad == InitPad /\ [][NextPad]_vars

\* x without its leading and trailing space, tab, CR and LF
Unpadded(x) ==
    IF Content(x, PadBytes) = {}
    THEN <<>>
    ELSE SubSeq(x, Lowest(Content(x, PadBytes)), Highest(Content(x, PadBytes)))

\* C17: padding invariance.  For parse_unsigned, parse_signed and
\* parse_bool, for every input, bounds and clamp setting, the outcome is the
\* outcome for the input without its leading and trailing space, tab, CR
\* and LF bytes.
C17_PaddingInvariance ==
    /\ op \in {"parse_unsigned", "parse_signed"} => res = SameCall(Unpadded(s))
    /\ op = "parse_bool" => bres = parse_bool(Unpadded(s))

\* a token padded on both sides parsed to the value of the bare token
C17_Witness ==
    /\ op = "parse_signed" /\ res.ok /\ ~clamp
    /\ Len(s) = Len(Unpadded(s)) + PadLen
    /\ s[1] \in PadBytes /\ s[Len(s)] \in PadBytes
    /\ res = parse_signed(Unpadded(s), min, max, clamp)

(***************************************************************************)
(* Signs and digit-less tokens (Spec)                                      *)
(***************************************************************************)

\* C18: a leading '+' changes nothing.  For every trimmed, non-empty input
\* that does not begin with '+' or '-', and for all bounds and clamp
\* settings, parse_unsigned and parse_signed return for the input with a
\* '+' before it what they return for the input, value or error kind.
C18_PlusChangesNothing ==
    (/\ op \in {"parse_unsigned", "parse_signed"}
     /\ s # <<>> /\ Trimmed(s) = s
     /\ s[1] \notin {43, 45})
        => SameCall(<<43>> \o s) = res

\* a hexadecimal literal parsed to a value, and so does the literal after '+'
C18_Witness ==
    /\ op = "parse_unsigned" /\ ~clamp /\ res.ok
    /\ Trimmed(s) = s /\ HasPrefix(s, {120})
    /\ parse_unsigned(<<43>> \o s, min, max, clamp) = res

\* the first byte of x that is not ASCII white space (0 when there is none)
FirstByte(x) ==
    IF Content(x, {32, 9, 10, 12, 13}) = {}
    THEN 0
    ELSE x[Lowest(Content(x, {32, 9, 10, 12, 13}))]

\* C19: unsigned parsing rejects a leading '-' early.  With clamp = false,
\* every input whose first non-whitespace byte is '-' makes parse_unsigned
\* return Err(UnexpectedSign), whatever follows the sign.
C19_UnexpectedSignFirst ==
    (op = "parse_unsigned" /\ ~clamp /\ FirstByte(s) = 45)
        => res = Err("UnexpectedSign")

\* a '-' followed by a digit that overflows was refused for its sign
C19_Witness ==
    /\ op = "parse_unsigned" /\ ~clamp
    /\ Len(Trimmed(s)) = 2 /\ Trimmed(s)[1] = 45
    /\ number_parse(DropFirst(Trimmed(s), 1), FALSE) = TokErr("IntOverflow")
    /\ res = Err("UnexpectedSign")

\* the token after the sign the called parser consumes: '+' for both
\* parsers, '-' for parse_signed only
AfterConsumedSign(x) ==
    IF Len(x) >= 1 /\ (x[1] = 43 \/ (x[1] = 45 /\ op = "parse_signed"))
    THEN DropFirst(x, 1)
    ELSE x

\* the trimmed input is an optional consumed sign, an optional radix prefix
\* and nothing but underscores
Digitless ==
    /\ op \in {"parse_unsigned", "parse_signed"}
    /\ Trimmed(s) # <<>>
    /\ \A i \in 1 .. Len(RunOf(AfterConsumedSign(Trimmed(s)))) :
           RunOf(AfterConsumedSign(Trimmed(s)))[i] = 95

\* C20: whenever the trimmed input consists only of an optional consumed
\* sign, an optional radix prefix and zero or more underscores, the parse
\* fails with NoDigits for any clamp setting.
C20_NoDigits == Digitless => res = Err("NoDigits")

\* a sign, a prefix and an underscore were refused with clamp set
C20_Witness ==
    /\ Digitless /\ clamp
    /\ Len(Trimmed(s)) = 4 /\ Trimmed(s)[4] = 95
    /\ res = Err("NoDigits")

(***************************************************************************)
(* Bounds and clamping as a whole (Spec)                                   *)
(***************************************************************************)

IsIntegerCall == op \in {"parse_unsigned", "parse_signed"}

\* C24: range invariant of results.  For parse_unsigned and parse_signed,
\* every input, every min <= max and both clamp settings, any Ok(v) returned
\* satisfies min <= v <= max, and with clamp = true the parser never returns
\* Err(OutOfRange).
C24_ResultWithinBounds ==
    IsIntegerCall
        => /\ (min <= max /\ res.ok) => (min <= res.val /\ res.val <= max)
           /\ clamp => res # Err("OutOfRange")

\* a value above the maximum came back as the maximum
C24_Witness ==
    /\ op = "parse_signed" /\ clamp /\ min < max
    /\ Representable(TokS) /\ SignedValue(TokS) > max
    /\ res = Ok(max)

C27_ClampExtends ==
    (IsIntegerCall /\ ~clamp /\ res.ok)
        => res = (IF op = "parse_unsigned"
                  THEN parse_unsigned(s, min, max, TRUE)
                  ELSE parse_signed(s, min, max, TRUE))

\* a value strictly inside the bounds was returned without clamp, and with
\* clamp as well
C27_Witness ==
    /\ op = "parse_signed" /\ ~clamp
    /\ res.ok /\ min < res.val /\ res.val < max
    /\ parse_signed(s, min, max, TRUE) = res

\* the token, the value it stands for when the intermediate type holds it,
\* and the two ways a call with clamp saturates instead
TokOfCall == IF op = "parse_unsigned" THEN TokU ELSE TokS
HasValue == IF op = "parse_unsigned" THEN TokU.ok ELSE Representable(TokS)
Value == IF op = "parse_unsigned" THEN TokU.n ELSE SignedValue(TokS)
SaturatedDown ==
    IF op = "parse_unsigned"
    THEN ~TokU.ok /\ TokU.err = "UnexpectedSign"
    ELSE NegOverflow(TokS)
SaturatedUp ==
    IF op = "parse_unsigned"
    THEN ~TokU.ok /\ TokU.err = "IntOverflow"
    ELSE PosOverflow(TokS)

\* what both statements of C28 say of calls without clamp
NoOkWithoutClamp ==
    ~clamp => /\ ~res.ok
              /\ TokOfCall.ok => res = Err("OutOfRange")

\* C28 as stated: under inverted bounds (min > max), without clamp no input
\* gives Ok and every tokenizable input gives OutOfRange; with clamp every
\* Ok result is min when the value is below min or the input was saturated
\* downward, and max otherwise.
C28_DownwardGivesMin ==
    (IsIntegerCall /\ min > max)
        => /\ NoOkWithoutClamp
           /\ (clamp /\ res.ok)
                 => res.val = (IF (HasValue /\ Value < min) \/ SaturatedDown
                               THEN min ELSE max)

\* C28 amended: the same, except that with clamp the Ok result is min when
\* the value is below min or the input was saturated upward (the maximum
\* put in its place is below min), and max otherwise, an input saturated
\* downward included (the minimum put in its place is above max).
C28_UpwardGivesMin ==
    (IsIntegerCall /\ min > max)
        => /\ NoOkWithoutClamp
           /\ (clamp /\ res.ok)
                 => res.val = (IF (HasValue /\ Value < min) \/ SaturatedUp
                               THEN min ELSE max)

\* under inverted bounds a negative input to parse_unsigned came back as max
C28_Witness ==
    /\ op = "parse_unsigned" /\ clamp /\ min > max
    /\ SaturatedDown /\ res = Ok(max)

(***************************************************************************)
(* Error precedence in the digit loop (SpecTok)                            *)
(***************************************************************************)

\* the call gets past the sign: the token is not empty and a '-' is allowed
PastSign ==
    /\ op = "number_parse"
    /\ Trimmed(s) # <<>>
    /\ sign \/ Trimmed(s)[1] # 45

\* the bytes of the run that come before its first offending byte
ValidPart ==
    IF BadBytes = {} THEN BodyRun ELSE SubSeq(BodyRun, 1, Lowest(BadBytes) - 1)

\* positions of the valid part at which the digits read so far exceed
\* u128::MAX
OverflowAt ==
    {k \in 1 .. Len(ValidPart) :
        Positional(DigitsOnly(SubSeq(ValidPart, 1, k)), BodyRadix) > U128_MAX}

\* C29: error precedence follows scan order.  After the sign and prefix the
\* tokenizer reports InvalidDigit exactly when an invalid byte comes before
\* any overflowing digit, IntOverflow exactly when a digit overflows the
\* accumulator before any invalid byte (later bytes are not examined), and
\* NoDigits exactly when the whole remainder holds neither a digit nor an
\* invalid byte.
C29_ScanOrder ==
    PastSign
        => /\ tok = TokErr("InvalidDigit") <=> (BadBytes # {} /\ OverflowAt = {})
           /\ tok = TokErr("IntOverflow") <=> OverflowAt # {}
           /\ tok = TokErr("NoDigits")
                 <=> (BadBytes = {} /\ DigitsOnly(BodyRun) = <<>>)

\* a digit overflowed before an invalid byte that stands later in the input
C29_Witness ==
    /\ PastSign /\ tok = TokErr("IntOverflow")
    /\ BadBytes # {}
    /\ Lowest(OverflowAt) < Lowest(BadBytes)

(***************************************************************************)
(* The width adapters (SpecWidth): parse_bounded and parsers for a narrow  *)
(* and a wide integer type of either signedness, and for bool, on the      *)
(* decimal numbers up to one past u128::MAX with each sign, and on a few   *)
(* tokens that are no numbers.                                             *)
(***************************************************************************)

\* the decimal digits of n
RECURSIVE Dec(_)
Dec(n) == IF n < 10 THEN <<48 + n>> ELSE Dec(n \div 10) \o <<48 + (n % 10)>>

\* "", " ", "g", "t", " 1 ", "-"
Oddities == {<<>>, <<32>>, <<103>>, <<116>>, <<32, 49, 32>>, <<45>>}

WidthInputs == {sg \o Dec(n) : sg \in Signs, n \in 0 .. U128_MAX + 1} \cup Oddities

IntegerTypes ==
    {UnsignedType(NarrowBits), SignedType(NarrowBits), UnsignedType(Bits), SignedType(Bits)}

\* Option<W>
OptionOf(ty) ==
    IF ty.kind = "bool"
    THEN {None} \cup {Some(b) : b \in BOOLEAN}
    ELSE {None} \cup {Some(v) : v \in type_min(ty) .. type_max(ty)}

\* the defaults tried: none, W::MIN and W::MAX (false and true for bool)
Defaults(ty) ==
    IF ty.kind = "bool"
    THEN OptionOf(ty)
    ELSE {None, Some(type_min(ty)), Some(type_max(ty))}

InitWidth == s \in WidthInputs /\ Fresh

\* parse_bounded::W(s, default, min, max, clamp); min and max hold the two
\* options
CallParseBounded ==
    /\ op = "none"
    /\ \E ty \in IntegerTypes :
          \E default \in Defaults(ty), lo \in OptionOf(ty), hi \in OptionOf(ty),
             c \in BOOLEAN :
                /\ typ' = ty
                /\ dflt' = default
                /\ min' = lo
                /\ max' = hi
                /\ clamp' = c
                /\ out' = parse_bounded(ty, s, default, lo, hi, c)
    /\ op' = "parse_bounded"
    /\ UNCHANGED <<s, sign, res, tok, bres, span, isset, frame>>

\* parsers::W(s, default)
CallParsers ==
    /\ op = "none"
    /\ \E ty \in IntegerTypes \cup {BoolType} :
          \E default \in Defaults(ty) :
                /\ typ' = ty
                /\ dflt' = default
                /\ out' = parsers(ty, s, default)
    /\ op' = "parsers"
    /\ UNCHANGED <<s, min, max, clamp, sign, res, tok, bres, span, isset, frame>>

NextWidth == CallParseBounded \/ CallParsers

SpecWidth == InitWidth /\ [][NextWidth]_vars

\* the bounds the adapter works with: the caller's, or those of the type
LowBound == IF op = "parse_bounded" THEN unwrap_or(min, type_min(typ)) ELSE type_min(typ)
HighBound == IF op = "parse_bounded" THEN unwrap_or(max, type_max(typ)) ELSE type_max(typ)
Clamping == op = "parse_bounded" /\ clamp

\* what the 128-bit parser answers for the input under those bounds
WideResult ==
    IF typ.kind = "signed"
    THEN parse_signed(s, LowBound, HighBound, Clamping)
    ELSE parse_unsigned(s, LowBound, HighBound, Clamping)

IsIntegerAdapter == op \in {"parse_bounded", "parsers"} /\ typ.kind # "bool"

\* the number the input stands for, when the intermediate type holds it
TypedToken == IF typ.kind = "signed" THEN TokS ELSE TokU
TypedHasValue == IF typ.kind = "signed" THEN Representable(TokS) ELSE TokU.ok
TypedValue == IF typ.kind = "signed" THEN SignedValue(TokS) ELSE TokU.n

\* C21: width adapters never truncate.  For every integer width, input,
\* caller bounds of the type and clamp setting, a parsed result Some(v) lies
\* in W::MIN..W::MAX (and in min..max when min <= max) and is the 128-bit
\* parser's result; with no caller bounds and no clamp a number outside the
\* natural range of W gives failure and one inside gives that number, the
\* extremes included.
C21_NoTruncation ==
    IsIntegerAdapter
        => /\ WideResult.ok
                 => /\ out = Some(WideResult.val)
                    /\ type_min(typ) <= out.v /\ out.v <= type_max(typ)
                    /\ LowBound <= HighBound
                          => (LowBound <= out.v /\ out.v <= HighBound)
           /\ (op = "parsers" /\ TypedHasValue)
                 => out = (IF type_min(typ) <= TypedValue /\ TypedValue <= type_max(typ)
                           THEN Some(TypedValue)
                           ELSE None)

\* the most negative value of the narrow signed type was parsed
C21_Witness ==
    /\ op = "parsers" /\ typ = SignedType(NarrowBits)
    /\ TypedHasValue /\ TypedValue = type_min(typ)
    /\ out = Some(type_min(typ))

IsAdapter == op \in {"parse_bounded", "parsers"}

\* what the parser under the adapter answers: whether it succeeded, its
\* value, its error
ParserOk == IF typ.kind = "bool" THEN parse_bool(s).ok ELSE WideResult.ok
ParserValue == IF typ.kind = "bool" THEN parse_bool(s).b ELSE WideResult.val
ParserError == IF typ.kind = "bool" THEN parse_bool(s).err ELSE WideResult.err

\* what both statements of C22 say of empty input and of input that parses
DefaultOnlyWhenEmpty ==
    /\ Blank(s) <=> (~ParserOk /\ ParserError = "Empty")
    /\ Blank(s) => out = dflt
    /\ ParserOk => out = Some(ParserValue)

\* C22 as stated: an adapter configured with a default d returns d exactly
\* when the parser's outcome is Empty (input zero-length or white space
\* only), returns the parsed value for input that parses, and for input
\* that fails for any other reason returns that failure, the parser's error
\* (Err(InvalidDigit) for "abc"), not the default.
C22_FailureKeepsItsKind ==
    (IsAdapter /\ dflt.some)
        => /\ DefaultOnlyWhenEmpty
           /\ (~ParserOk /\ ParserError # "Empty")
                 => /\ "err" \in DOMAIN out
                    /\ out.err = ParserError

\* C22 amended: the same, except that for input that fails for a reason
\* other than Empty the adapter returns None, a failure that is not the
\* default and does not tell the parser's error kind.
C22_FailureIsNone ==
    (IsAdapter /\ dflt.some)
        => /\ DefaultOnlyWhenEmpty
           /\ (~ParserOk /\ ParserError # "Empty") => out = None

\* an adapter with a default was given a token that is no number
C22_Witness ==
    /\ op = "parse_bounded" /\ dflt.some
    /\ ~ParserOk /\ ParserError = "InvalidDigit"
    /\ out = None

(***************************************************************************)
(* parse_env! (SpecEnv): each arm of the macro, once, on a variable that   *)
(* is unset or holds one of the inputs of the width adapters.              *)
(***************************************************************************)

EnvTypes == IntegerTypes \cup {BoolType}

\* the values given as $default: W::MIN and W::MAX, false and true
DefaultValues(ty) ==
    IF ty.kind = "bool" THEN BOOLEAN ELSE {type_min(ty), type_max(ty)}

InitEnv ==
    /\ NothingCalled
    /\ \/ isset = TRUE /\ s \in WidthInputs
       \/ isset = FALSE /\ s = <<>>

ExpandAs ==
    /\ op = "none"
    /\ \E ty \in EnvTypes :
          /\ typ' = ty
          /\ out' = parse_env_as(ty, isset, s)
    /\ op' = "parse_env_as"
    /\ UNCHANGED <<s, min, max, clamp, sign, res, tok, bres, span, dflt, isset, frame>>

ExpandAsElse ==
    /\ op = "none"
    /\ \E ty \in EnvTypes :
          \E default \in DefaultValues(ty) :
             /\ typ' = ty
             /\ dflt' = Some(default)
             /\ out' = parse_env_as_else(ty, isset, s, default)
    /\ op' = "parse_env_as_else"
    /\ UNCHANGED <<s, min, max, clamp, sign, res, tok, bres, span, isset, frame>>

ExpandAsIn ==
    /\ op = "none"
    /\ \E ty \in IntegerTypes :
          \E start \in type_min(ty) .. type_max(ty),
             end_incl \in type_min(ty) .. type_max(ty) :
             /\ typ' = ty
             /\ min' = start
             /\ max' = end_incl
             /\ out' = parse_env_as_in(ty, isset, s, start, end_incl)
    /\ op' = "parse_env_as_in"
    /\ UNCHANGED <<s, clamp, sign, res, tok, bres, span, dflt, isset, frame>>

ExpandAsInElse ==
    /\ op = "none"
    /\ \E ty \in IntegerTypes :
          \E start \in type_min(ty) .. type_max(ty),
             end_incl \in type_min(ty) .. type_max(ty),
             default \in DefaultValues(ty) :
             /\ typ' = ty
             /\ min' = start
             /\ max' = end_incl
             /\ dflt' = Some(default)
             /\ out' = parse_env_as_in_else(ty, isset, s, start, end_incl, default)
    /\ op' = "parse_env_as_in_else"
    /\ UNCHANGED <<s, clamp, sign, res, tok, bres, span, isset, frame>>

ExpandTryAs ==
    /\ op = "none"
    /\ \E ty \in EnvTypes :
          /\ typ' = ty
          /\ out' = parse_env_try_as(ty, isset, s)
    /\ op' = "parse_env_try_as"
    /\ UNCHANGED <<s, min, max, clamp, sign, res, tok, bres, span, dflt, isset, frame>>

ExpandTryAsIn ==
    /\ op = "none"
    /\ \E ty \in IntegerTypes :
          \E start \in type_min(ty) .. type_max(ty),
             end_incl \in type_min(ty) .. type_max(ty) :
             /\ typ' = ty
             /\ min' = start
             /\ max' = end_incl
             /\ out' = parse_env_try_as_in(ty, isset, s, start, end_incl)
    /\ op' = "parse_env_try_as_in"
    /\ UNCHANGED <<s, clamp, sign, res, tok, bres, span, dflt, isset, frame>>

NextEnv ==
    \/ ExpandAs
    \/ ExpandAsElse
    \/ ExpandAsIn
    \/ ExpandAsInElse
    \/ ExpandTryAs
    \/ ExpandTryAsIn

SpecEnv == InitEnv /\ [][NextEnv]_vars

\* the arm has a range
Ranged == op \in {"parse_env_as_in", "parse_env_as_in_else", "parse_env_try_as_in"}

\* what the parser under the arm answers for the value of the variable:
\* the type's range, or the range of the arm, and no clamp
ArmResult ==
    IF typ.kind = "bool" THEN parse_bool(s)
    ELSE IF typ.kind = "signed"
    THEN parse_signed(s, IF Ranged THEN min ELSE type_min(typ),
                         IF Ranged THEN max ELSE type_max(typ), FALSE)
    ELSE parse_unsigned(s, IF Ranged THEN min ELSE 0,
                           IF Ranged THEN max ELSE type_max(typ), FALSE)

ArmValue == IF typ.kind = "bool" THEN ArmResult.b ELSE ArmResult.val

\* C23: in the else arms of parse_env!, with or without a range, when the
\* variable is unset or its value is empty (or white space only) the result
\* is exactly the default, not checked against nor clamped into the range;
\* when the variable holds a value that parses within range the result is
\* that value.
C23_DefaultAsGiven ==
    op \in {"parse_env_as_else", "parse_env_as_in_else"}
        => /\ (~isset \/ Blank(s)) => out = Returned(dflt.v)
           /\ (isset /\ ArmResult.ok) => out = Returned(ArmValue)

\* a variable that is not set gave a default that lies outside the range
C23_Witness ==
    /\ op = "parse_env_as_in_else" /\ ~isset
    /\ min < max /\ dflt.v > max
    /\ out = Returned(dflt.v)

\* the else arm that corresponds to the try arm that was expanded, with
\* default d
ElseArm(d) ==
    IF op = "parse_env_try_as_in"
    THEN parse_env_as_in_else(typ, isset, s, min, max, d)
    ELSE parse_env_as_else(typ, isset, s, d)

\* two outcomes of an expansion are the same: both a panic, both a compile
\* error, or the same value
SameOutcome(a, b) == a.kind = b.kind /\ (a.kind = "returned" => a.v = b.v)

\* the variable counts as absent for the else arm: whatever the default,
\* the else arm yields it
AbsentForElse == \A d \in DefaultValues(typ) : SameOutcome(ElseArm(d), Returned(d))

\* C30: the try and else arms of parse_env! agree on which values count as
\* absent.  For every value for which the else arm yields its default the
\* try arm yields None rather than a panic; for every other value the try
\* arm yields Some(v) exactly when the else arm yields v.
C30_TryAgreesWithElse ==
    op \in {"parse_env_try_as", "parse_env_try_as_in"}
        => IF AbsentForElse
           THEN SameOutcome(out, Returned(None))
           ELSE \A d \in DefaultValues(typ) :
                    IF ElseArm(d).kind = "returned"
                    THEN SameOutcome(out, Returned(Some(ElseArm(d).v)))
                    ELSE SameOutcome(out, ElseArm(d))

(***************************************************************************)
(* The calls run step by step (SpecSteps): one step per loop iteration or  *)
(* straight-line block of parse.rs, with every index and every operation   *)
(* that panics when it goes wrong                                          *)
(***************************************************************************)

StepMaxLen == 3

\* bytes of every kind the code tells apart, with NUL and a byte above 127
StepAlphabet == {0, 9, 32, 43, 45, 48, 49, 95, 120, 200}

StepInputs == UNION {[1 .. n -> StepAlphabet] : n \in 0 .. StepMaxLen}

\* the calls: the function, and its arguments besides the slice
StepCalls ==
    {[callee |-> f, skip_sign |-> FALSE, incl_min |-> 0, incl_max |-> 0, clamp |-> FALSE] :
        f \in {"trim_ws", "parse_bool"}}
    \cup {[callee |-> "number_parse", skip_sign |-> k, incl_min |-> 0, incl_max |-> 0,
           clamp |-> FALSE] : k \in BOOLEAN}
    \cup {[callee |-> "parse_unsigned", skip_sign |-> FALSE, incl_min |-> lo, incl_max |-> hi,
           clamp |-> c] : lo \in {0, U128_MAX}, hi \in {0, U128_MAX}, c \in BOOLEAN}
    \cup {[callee |-> "parse_signed", skip_sign |-> TRUE, incl_min |-> lo, incl_max |-> hi,
           clamp |-> c] : lo \in {I128_MIN, I128_MAX}, hi \in {I128_MIN, I128_MAX},
                          c \in BOOLEAN}

\* a panic ends the call
Abort(f) == [f EXCEPT !.panic = TRUE, !.pc = "done"]

\* s[i] for every i of idx: out of bounds is a panic, in bounds is one more
\* read of that byte
Index(sl, f, idx) ==
    IF \A i \in idx : 0 <= i /\ i < Len(sl)
    THEN [f EXCEPT !.reads = [k \in 1 .. Len(sl) |->
                                 @[k] + (IF (k - 1) \in idx THEN 1 ELSE 0)]]
    ELSE Abort(f)

\* a - b on usize: underflow is a panic
usize_sub(f, a, b) == IF a < b THEN Abort(f) ELSE f

\* return of a call
Return(f, r) == [f EXCEPT !.ret = r, !.pc = "done"]

\* trim_ws up to its first loop
trim_ws_entry(sl, f) ==
    IF Len(sl) = 0 \/ Len(sl) <= 0
    THEN [f EXCEPT !.some = FALSE, !.pc = "after_trim"]
    ELSE [f EXCEPT !.start = 0, !.pc = "trim_front"]

\* after the first loop of trim_ws: the early return and let mut end
trim_front_exit(sl, f) ==
    IF f.start = Len(sl)
    THEN [f EXCEPT !.some = FALSE, !.pc = "after_trim"]
    ELSE LET g == usize_sub(f, Len(sl), 1) IN
         IF g.panic THEN g ELSE [g EXCEPT !.end = Len(sl) - 1, !.pc = "trim_back"]

\* one test of the condition of the first loop of trim_ws, and its body
\* (mutant first: the condition does not compare start with s.len())
trim_front_step_unguarded(sl, f) ==
    LET g == Index(sl, f, {f.start}) IN
    IF g.panic THEN g
    ELSE IF is_ascii_whitespace(At(sl, f.start))
    THEN [g EXCEPT !.start = @ + 1]
    ELSE trim_front_exit(sl, g)

trim_front_step(sl, f) ==
    IF f.start < Len(sl)
    THEN LET g == Index(sl, f, {f.start}) IN
         IF g.panic THEN g
         ELSE IF is_ascii_whitespace(At(sl, f.start))
         THEN [g EXCEPT !.start = @ + 1]
         ELSE trim_front_exit(sl, g)
    ELSE trim_front_exit(sl, f)

\* after the second loop of trim_ws: end += 1 and the result
trim_back_exit(f) ==
    IF f.end + 1 <= f.start
    THEN [f EXCEPT !.end = @ + 1, !.some = FALSE, !.pc = "after_trim"]
    ELSE [f EXCEPT !.end = @ + 1, !.some = TRUE, !.pc = "after_trim"]

\* one test of the condition of the second loop of trim_ws, and its body
trim_back_step(sl, f) ==
    IF f.end > f.start
    THEN LET g == Index(sl, f, {f.end}) IN
         IF g.panic THEN g
         ELSE IF is_ascii_whitespace(At(sl, f.end))
         THEN LET h == usize_sub(g, g.end, 1) IN
              IF h.panic THEN h ELSE [h EXCEPT !.end = @ - 1]
         ELSE trim_back_exit(g)
    ELSE trim_back_exit(f)

\* what parse_unsigned and parse_signed do with the token; the negation and
\* the casts of parse_signed must stay inside i128
finish(f, t) ==
    IF f.callee = "number_parse"
    THEN Return(f, t)
    ELSE IF f.callee = "parse_unsigned"
    THEN LET val == unsigned_match(t, f.incl_min, f.incl_max, f.clamp) IN
         Return(f, IF val.ok
                   THEN unsigned_bounds(val.val, f.incl_min, f.incl_max, f.clamp)
                   ELSE val)
    ELSE LET val == signed_match(t, f.incl_min, f.incl_max, f.clamp) IN
         IF val.ok /\ (val.val < I128_MIN \/ val.val > I128_MAX)
         THEN Abort(f)
         ELSE Return(f, IF val.ok
                        THEN signed_bounds(val.val, f.incl_min, f.incl_max, f.clamp)
                        ELSE val)

\* the match of parse_bool, with the bytes it reads
bool_step(sl, f) ==
    LET len == saturating_sub(f.end, f.start)
        g == Index(sl, f, IF 1 <= len /\ len <= 5
                          THEN f.start .. f.start + len - 1
                          ELSE {})
    IN IF g.panic THEN g ELSE Return(g, bool_match(sl, f.start, len))

\* number_parse from the sign to the choice of the radix
sign_and_radix(sl, f) ==
    LET g == Index(sl, f, {f.start}) IN
    IF g.panic THEN g
    ELSE LET c == At(sl, f.start) IN
         IF c = 45 /\ ~f.skip_sign
         THEN finish(g, TokErr("UnexpectedSign"))
         ELSE LET pos1 == IF c \in {45, 43} THEN f.start + 1 ELSE f.start IN
              IF pos1 = f.end
              THEN finish(g, TokErr("NoDigits"))
              ELSE IF pos1 + 2 <= f.end
              THEN LET h == Index(sl, g, {pos1, pos1 + 1}) IN
                   IF h.panic THEN h
                   ELSE LET rl == radix_prefix(At(sl, pos1), At(sl, pos1 + 1)) IN
                        [h EXCEPT !.pos = pos1 + rl[2], !.radix = rl[1],
                                  !.neg = (c = 45), !.accum = 0,
                                  !.ever_saw_digits = FALSE, !.pc = "digits"]
              ELSE [g EXCEPT !.pos = pos1, !.radix = 10, !.neg = (c = 45),
                             !.accum = 0, !.ever_saw_digits = FALSE, !.pc = "digits"]

\* what the caller of trim_ws does with the span
after_trim(sl, f) ==
    IF f.callee = "trim_ws"
    THEN Return(f, IF f.some THEN SomeSpan(f.start, f.end) ELSE NoSpan)
    ELSE IF f.callee = "parse_bool"
    THEN (IF f.some THEN bool_step(sl, f) ELSE Return(f, BoolErr("Empty")))
    ELSE IF f.some THEN sign_and_radix(sl, f) ELSE finish(f, TokErr("Empty"))

\* one test of the condition of the digit loop, and its body: the digit is
\* a u8 difference and the accumulator a u128
digit_step(sl, f) ==
    IF f.pos < f.end
    THEN LET g == Index(sl, f, {f.pos}) IN
         IF g.panic THEN g
         ELSE LET value == digit_value(At(sl, f.pos), f.radix) IN
              IF value.kind = "skip"
              THEN [g EXCEPT !.pos = @ + 1]
              ELSE IF value.kind = "invalid"
              THEN finish(g, TokErr("InvalidDigit"))
              ELSE IF value.v < 0
              THEN Abort(g)
              ELSE LET shift == checked_mul(f.accum, f.radix) IN
                   IF ~shift.some
                   THEN finish(g, TokErr("IntOverflow"))
                   ELSE IF shift.v > U128_MAX
                   THEN Abort(g)
                   ELSE LET val == checked_add(shift.v, value.v) IN
                        IF ~val.some
                        THEN finish(g, TokErr("IntOverflow"))
                        ELSE IF val.v > U128_MAX
                        THEN Abort(g)
                        ELSE [g EXCEPT !.pos = @ + 1, !.accum = val.v,
                                       !.ever_saw_digits = TRUE]
    ELSE finish(f, IF f.ever_saw_digits THEN TokOk(f.accum, f.neg) ELSE TokErr("NoDigits"))

InitSteps ==
    /\ NothingCalled
    /\ isset = TRUE
    /\ s \in StepInputs

Stepped(f) == [f EXCEPT !.steps = @ + 1]

StepCall ==
    /\ frame.pc = "idle"
    /\ \E c \in StepCalls :
          frame' = Stepped(trim_ws_entry(s,
                       [Idle EXCEPT !.callee = c.callee, !.skip_sign = c.skip_sign,
                                    !.incl_min = c.incl_min, !.incl_max = c.incl_max,
                                    !.clamp = c.clamp,
                                    !.reads = [k \in 1 .. Len(s) |-> 0]]))
    /\ UNCHANGED <<s, op, min, max, clamp, sign, res, tok, bres, span, typ, dflt, isset, out>>

StepTrimFront ==
    /\ frame.pc = "trim_front"
    /\ frame' = Stepped(trim_front_step(s, frame))
    /\ UNCHANGED <<s, op, min, max, clamp, sign, res, tok, bres, span, typ, dflt, isset, out>>

StepTrimBack ==
    /\ frame.pc = "trim_back"
    /\ frame' = Stepped(trim_back_step(s, frame))
    /\ UNCHANGED <<s, op, min, max, clamp, sign, res, tok, bres, span, typ, dflt, isset, out>>

StepAfterTrim ==
    /\ frame.pc = "after_trim"
    /\ frame' = Stepped(after_trim(s, frame))
    /\ UNCHANGED <<s, op, min, max, clamp, sign, res, tok, bres, span, typ, dflt, isset, out>>

StepDigit ==
    /\ frame.pc = "digits"
    /\ frame' = Stepped(digit_step(s, frame))
    /\ UNCHANGED <<s, op, min, max, clamp, sign, res, tok, bres, span, typ, dflt, isset, out>>

NextSteps ==
    \/ StepCall
    \/ StepTrimFront
    \/ StepTrimBack
    \/ StepAfterTrim
    \/ StepDigit

SpecSteps == InitSteps /\ [][NextSteps]_vars

\* what the call gives when it is evaluated in one go
InOneGo ==
    IF frame.callee = "trim_ws" THEN trim_ws(s)
    ELSE IF frame.callee = "parse_bool" THEN parse_bool(s)
    ELSE IF frame.callee = "number_parse" THEN number_parse(s, frame.skip_sign)
    ELSE IF frame.callee = "parse_unsigned"
    THEN parse_unsigned(s, frame.incl_min, frame.incl_max, frame.clamp)
    ELSE parse_signed(s, frame.incl_min, frame.incl_max, frame.clamp)

\* C25: whatever the bytes and the length of the input, no call of trim_ws,
\* number_parse, parse_unsigned, parse_signed or parse_bool panics (no index
\* out of bounds, no usize underflow, no arithmetic overflow); it reads each
\* byte of the input at most four times and ends within one step per byte
\* and five more, with the result of the function.
C25_NoPanic ==
    /\ ~frame.panic
    /\ \A k \in DOMAIN frame.reads : frame.reads[k] <= 4
    /\ frame.steps <= Len(s) + 5
    /\ frame.pc = "done" => frame.ret = InOneGo

\* a call that has ended on an input of full length, one of whose bytes was
\* read by the trimmer, the sign match, the radix match and the digit loop
C25_Witness ==
    /\ frame.pc = "done"
    /\ ~frame.panic
    /\ Len(s) = StepMaxLen
    /\ \E k \in DOMAIN frame.reads : frame.reads[k] = 4

====
